---- MODULE Spec2Model ----
(***************************************************************************)
(* A model of the Lisp interpreter of mutable.py: the tokenizer, the       *)
(* reader (read_from_tokens / atom), the environment frames (Env), the     *)
(* evaluator (Sexp.eval) and closures (Procedure).                         *)
(*                                                                         *)
(* A Python str is a sequence of one-character strings here, so that the   *)
(* tokenizer and int() are computed and not assumed.  The value None and   *)
(* the Python exceptions are explicit records.                             *)
(***************************************************************************)
EXTENDS Integers, Sequences, FiniteSets, TLC

VARIABLES
    tokens,   \* reader: the host's token list, consumed by read_from_tokens
    rin,      \* reader: the token list handed to the last read (before the call)
    rres,     \* reader: outcome of the last parse / read_from_tokens call
    heap,     \* evaluator: the Env objects, in creation order; heap[1] is global_env
    procs,    \* evaluator: the Procedure objects, in creation order
    out,      \* evaluator: what the primitive print has written so far
    held,     \* evaluator: the frames the host holds a reference to
    hist      \* evaluator: one record per finished call of Sexp.eval by the host

vars == <<tokens, rin, rres, heap, procs, out, held, hist>>

-----------------------------------------------------------------------------
(* Bounds of the model.                                                    *)

MaxTokens == 5      \* longest token list handed to read_from_tokens
MaxLen == 4         \* longest program text handed to parse
MaxLongRun == 4     \* host calls of eval in one run of the closure and order programs
MaxShortRun == 3    \* host calls of eval / Env() in one run of the other programs
MaxK == 2           \* most applications of repeat in one expression
MaxDepth == 40      \* nesting of eval calls the model follows

-----------------------------------------------------------------------------
(* Values shared by the reader and the evaluator.                          *)

None == [t |-> "none"]
Num(n) == [t |-> "num", v |-> n]
Sym(s) == [t |-> "sym", n |-> s]
Lst(l) == [t |-> "list", l |-> l]
Bool(b) == [t |-> "bool", b |-> b]
Prim(s) == [t |-> "prim", n |-> s]
Proc(i) == [t |-> "proc", id |-> i]

-----------------------------------------------------------------------------
(* The reader.                                                             *)

LPAREN == <<"(">>
RPAREN == <<")">>

\* The characters program texts are made of.
Chars == {"(", ")", " ", "a", "1", "-"}

\* All sequences over S of length at most n.
RECURSIVE SeqsUpTo(_, _)
SeqsUpTo(S, n) ==
    IF n = 0 THEN {<<>>}
    ELSE LET shorter == SeqsUpTo(S, n - 1)
         IN  shorter \cup {Append(s, c) : s \in {q \in shorter : Len(q) = n - 1}, c \in S}

\* s.replace('(', ' ( ').replace(')', ' ) ')
RECURSIVE PadParens(_)
PadParens(s) ==
    IF s = <<>> THEN <<>>
    ELSE IF Head(s) \in {"(", ")"} THEN <<" ", Head(s), " ">> \o PadParens(Tail(s))
    ELSE <<Head(s)>> \o PadParens(Tail(s))

\* str.split(): the maximal runs of non-blank characters, in order.
RECURSIVE SplitFrom(_, _, _)
SplitFrom(s, cur, acc) ==
    IF s = <<>> THEN (IF cur = <<>> THEN acc ELSE Append(acc, cur))
    ELSE IF Head(s) = " "
         THEN SplitFrom(Tail(s), <<>>, IF cur = <<>> THEN acc ELSE Append(acc, cur))
         ELSE SplitFrom(Tail(s), Append(cur, Head(s)), acc)

tokenize(s) == SplitFrom(PadParens(s), <<>>, <<>>)

\* int(token) succeeds on an optional sign followed by decimal digits.  The
\* only digit of Chars is "1"; float(token) succeeds on no other token of
\* this alphabet, so the float branch of atom yields nothing new here.
IsDigits(s) == Len(s) > 0 /\ \A i \in 1..Len(s) : s[i] = "1"

RECURSIVE DigitsValue(_)
DigitsValue(s) == IF s = <<>> THEN 0 ELSE 10 * DigitsValue(SubSeq(s, 1, Len(s) - 1)) + 1

IsInt(token) ==
    \/ IsDigits(token)
    \/ Len(token) > 1 /\ token[1] = "-" /\ IsDigits(Tail(token))

IntValue(token) ==
    IF token[1] = "-" THEN 0 - DigitsValue(Tail(token)) ELSE DigitsValue(token)

atom(token) == IF IsInt(token) THEN Num(IntValue(token)) ELSE Sym(token)

ReadOk(val, rest) == [exc |-> "", msg |-> "", val |-> val, rest |-> rest]
ReadRaise(exc, msg, rest) == [exc |-> exc, msg |-> msg, val |-> None, rest |-> rest]

\* read_from_tokens pops from the list it is given; rest is what is left of
\* that list when the call returns or raises.
RECURSIVE read_from_tokens(_), ReadList(_, _)
read_from_tokens(toks) ==
    IF Len(toks) = 0 THEN ReadRaise("SyntaxError", "unexpected EOF while reading", toks)
    ELSE LET token == Head(toks)
             rest == Tail(toks)
         IN  IF token = LPAREN THEN ReadList(<<>>, rest)
             ELSE IF token = RPAREN THEN ReadRaise("SyntaxError", "unexpected )", rest)
             ELSE ReadOk(atom(token), rest)

\* The loop "while tokens[0] != ')'": tokens[0] on an empty list raises
\* IndexError.
ReadList(L, toks) ==
    IF Len(toks) = 0 THEN ReadRaise("IndexError", "list index out of range", toks)
    ELSE IF toks[1] # RPAREN
         THEN LET r == read_from_tokens(toks)
              IN  IF r.exc # "" THEN r ELSE ReadList(Append(L, r.val), r.rest)
         ELSE ReadOk(Lst(L), Tail(toks))

parse(program) == read_from_tokens(tokenize(program))

\* The tokens a host hands to read_from_tokens directly.
TokenAlphabet == {LPAREN, RPAREN, <<"a">>, <<"1">>}

NoRead == [exc |-> "", msg |-> "", val |-> None, rest |-> <<>>, op |-> "none"]

-----------------------------------------------------------------------------
(* Environments: Env(dict) with its outer link.  A frame is referred to by *)
(* its index in heap; outer = 0 is outer = None.                           *)

EmptyDict == [k \in {} |-> None]

\* d[k] = v on a dict
SetItem(d, k, v) == [x \in (DOMAIN d) \cup {k} |-> IF x = k THEN v ELSE d[x]]

\* d.update(zip(parms, args)): pairs up to the shorter of the two, a later
\* pair overwriting an earlier one with the same key.
RECURSIVE ZipUpdate(_, _, _)
ZipUpdate(d, parms, args) ==
    IF parms = <<>> \/ args = <<>> THEN d
    ELSE ZipUpdate(SetItem(d, Head(parms), Head(args)), Tail(parms), Tail(args))

EnvInit(parms, args, outer) == [vars |-> ZipUpdate(EmptyDict, parms, args), outer |-> outer]

\* Faulty variant of EnvFind: the outermost frame that binds var wins.
RECURSIVE EnvFindOuterFirst(_, _, _)
EnvFindOuterFirst(h, e, var) ==
    LET up == IF h[e].outer # 0 THEN EnvFindOuterFirst(h, h[e].outer, var) ELSE 0
    IN  IF up # 0 THEN up ELSE IF var \in DOMAIN h[e].vars THEN e ELSE 0

\* Env.find: the innermost frame where var appears; 0 stands for
\* raise AttributeError("This arithmetic symbol does not exist").
RECURSIVE EnvFind(_, _, _)
EnvFind(h, e, var) ==
    IF var \in DOMAIN h[e].vars THEN e
    ELSE IF h[e].outer # 0 THEN EnvFind(h, h[e].outer, var)
    ELSE 0

\* Faulty variant of EnvSetItem: assigns in the frame that already binds var, if any.
EnvSetItemWhereFound(h, e, var, val) ==
    LET f == EnvFind(h, e, var)
        target == IF f # 0 THEN f ELSE e
    IN  [h EXCEPT ![target].vars = SetItem(@, var, val)]

\* Faulty variant of EnvSetItem: keeps an existing binding (dict.setdefault).
EnvSetItemIfAbsent(h, e, var, val) ==
    IF var \in DOMAIN h[e].vars THEN h ELSE [h EXCEPT ![e].vars = SetItem(@, var, val)]

\* env[var] = val
EnvSetItem(h, e, var, val) == [h EXCEPT ![e].vars = SetItem(@, var, val)]

\* The names standard_env binds in the model: the integer primitives of the
\* table.  vars(math) and '/' yield floats and are left out of the model.
PrimNames == {"+", "-", "*", ">", "<", ">=", "<=", "=", "print", "and", "or", "not"}

standard_env == [vars |-> [n \in PrimNames |-> Prim(n)], outer |-> 0]

-----------------------------------------------------------------------------
(* Primitives: the operator module's functions on the model's values.      *)

IsNumeric(v) == v.t \in {"num", "bool"}
IntOf(v) == IF v.t = "num" THEN v.v ELSE IF v.b THEN 1 ELSE 0

\* Python truth value of a value
Truthy(v) ==
    IF v.t = "num" THEN v.v # 0
    ELSE IF v.t = "bool" THEN v.b
    ELSE v.t # "none"

\* a & b and a | b on Python's unbounded two's-complement integers
RECURSIVE BitAnd(_, _)
BitAnd(a, b) ==
    IF a = 0 \/ b = 0 THEN 0
    ELSE IF a = -1 THEN b
    ELSE IF b = -1 THEN a
    ELSE (IF a % 2 = 1 /\ b % 2 = 1 THEN 1 ELSE 0) + 2 * BitAnd(a \div 2, b \div 2)

RECURSIVE BitOr(_, _)
BitOr(a, b) ==
    IF a = 0 THEN b
    ELSE IF b = 0 THEN a
    ELSE IF a = -1 \/ b = -1 THEN -1
    ELSE (IF a % 2 = 1 \/ b % 2 = 1 THEN 1 ELSE 0) + 2 * BitOr(a \div 2, b \div 2)

\* a == b: numbers (bools included) by value, None with None, objects by identity
PyEq(a, b) ==
    IF IsNumeric(a) /\ IsNumeric(b) THEN IntOf(a) = IntOf(b)
    ELSE IF a.t # b.t THEN FALSE
    ELSE IF a.t = "none" THEN TRUE
    ELSE IF a.t = "prim" THEN a.n = b.n
    ELSE IF a.t = "proc" THEN a.id = b.id
    ELSE FALSE

\* The state threaded through one evaluation.
St(h, p, o) == [heap |-> h, procs |-> p, out |-> o, log |-> <<>>, exc |-> "", val |-> None]
Ret(st, v) == [st EXCEPT !.val = v]
Raise(st, e) == [st EXCEPT !.exc = e, !.val = None]
Note(st, ev) == [st EXCEPT !.log = Append(@, ev)]

\* proc(*args) for a builtin of the table
ApplyPrim(name, args, st) ==
    IF name = "print" THEN Ret([st EXCEPT !.out = Append(@, args)], None)
    ELSE IF name = "not"
    THEN IF Len(args) # 1 THEN Raise(st, "TypeError") ELSE Ret(st, Bool(~Truthy(args[1])))
    ELSE IF Len(args) # 2 THEN Raise(st, "TypeError")
    ELSE LET a == args[1]
             b == args[2]
         IN  IF name = "=" THEN Ret(st, Bool(PyEq(a, b)))
             ELSE IF ~(IsNumeric(a) /\ IsNumeric(b)) THEN Raise(st, "TypeError")
             ELSE IF name = "+" THEN Ret(st, Num(IntOf(a) + IntOf(b)))
             ELSE IF name = "-" THEN Ret(st, Num(IntOf(a) - IntOf(b)))
             ELSE IF name = "*" THEN Ret(st, Num(IntOf(a) * IntOf(b)))
             ELSE IF name = ">" THEN Ret(st, Bool(IntOf(a) > IntOf(b)))
             ELSE IF name = "<" THEN Ret(st, Bool(IntOf(a) < IntOf(b)))
             ELSE IF name = ">=" THEN Ret(st, Bool(IntOf(a) >= IntOf(b)))
             ELSE IF name = "<=" THEN Ret(st, Bool(IntOf(a) <= IntOf(b)))
             ELSE IF a.t = "bool" /\ b.t = "bool"
             THEN Ret(st, Bool(IF name = "and" THEN a.b /\ b.b ELSE a.b \/ b.b))
             ELSE IF name = "and" THEN Ret(st, Num(BitAnd(IntOf(a), IntOf(b))))
             ELSE Ret(st, Num(BitOr(IntOf(a), IntOf(b))))

-----------------------------------------------------------------------------
(* Procedure and Sexp.eval.                                                *)

\* Faulty variant of ProcedureInit: the closure captures global_env.
ProcedureInitGlobal(parms, body, env) == [parms |-> parms, body |-> body, env |-> 1]

\* Procedure.__init__
ProcedureInit(parms, body, env) == [parms |-> parms, body |-> body, env |-> env]

\* The parameter list of a lambda as the keys zip() pairs: a list of symbols.
\* Any other shape (a bare symbol, numbers or lists as parameters) is
\* outside the model.
ParmsModelled(parms) == parms.t = "list" /\ \A i \in 1..Len(parms.l) : parms.l[i].t = "sym"
ParmNames(parms) == [i \in 1..Len(parms.l) |-> parms.l[i].n]

\* Faulty variant of CallEnv: the new frame gets no outer environment.
CallEnvNoOuter(p, args) == EnvInit(ParmNames(p.parms), args, 0)

\* Env(self.parms, args, self.env) of Procedure.__call__
CallEnv(p, args) == EnvInit(ParmNames(p.parms), args, p.env)

IsHead(x, name) == x.l[1].t = "sym" /\ x.l[1].n = name

\* Faulty variant of IsDefineForm: print is no special form.
IsDefineOnly(x) == IsHead(x, "define")

\* x[0] == 'define' or x[0] == 'print'
IsDefineForm(x) == IsHead(x, "define") \/ IsHead(x, "print")

RECURSIVE Eval(_, _, _, _), EvalArgs(_, _, _, _, _), EvalArgsRightToLeft(_, _, _, _, _)

\* Faulty variant of EvalArgs: the operands are evaluated last to first.
EvalArgsRightToLeft(exps, env, d, st, acc) ==
    IF exps = <<>> THEN Ret(st, [t |-> "args", l |-> acc])
    ELSE LET n == Len(exps)
             s1 == Eval(exps[n], env, d, st)
         IN  IF s1.exc # "" THEN s1
             ELSE EvalArgsRightToLeft(SubSeq(exps, 1, n - 1), env, d, s1, <<s1.val>> \o acc)

\* [self.eval(exp, env) for exp in x[1:]]
EvalArgs(exps, env, d, st, acc) ==
    IF exps = <<>> THEN Ret(st, [t |-> "args", l |-> acc])
    ELSE LET s1 == Eval(Head(exps), env, d, st)
         IN  IF s1.exc # "" THEN s1
             ELSE EvalArgs(Tail(exps), env, d, s1, Append(acc, s1.val))

\* Faulty variant of ProcedureCall: the body is evaluated in the captured
\* environment itself, no frame is made for the arguments.
ProcedureCallNoFrame(id, args, d, st) ==
    Eval(st.procs[id].body, st.procs[id].env, d + 1, st)

\* Procedure.__call__: one new Env, then eval of the body in it
ProcedureCall(id, args, d, st) ==
    LET p == st.procs[id]
    IN  IF ~ParmsModelled(p.parms) THEN Raise(st, "Unmodelled")
        ELSE LET n == Len(st.heap) + 1
                 s1 == Note([st EXCEPT !.heap = Append(@, CallEnv(p, args))],
                            [k |-> "frame", d |-> d, proc |-> id, frame |-> n, args |-> args])
             IN  Eval(p.body, n, d + 1, s1)

\* proc(*args)
Invoke(f, args, d, st) ==
    IF f.t = "prim" THEN ApplyPrim(f.n, args, st)
    ELSE IF f.t = "proc" THEN ProcedureCall(f.id, args, d, st)
    ELSE Raise(st, "TypeError")

\* (if test conseq alt)
EvalIf(x, env, d, st) ==
    IF Len(x.l) # 4 THEN Raise(st, "ValueError")
    ELSE LET s1 == Eval(x.l[2], env, d + 1, st)
         IN  IF s1.exc # "" THEN s1
             ELSE Eval(IF Truthy(s1.val) THEN x.l[3] ELSE x.l[4], env, d + 1, s1)

\* (define var exp), and (print var exp): the branch has no return, so the
\* result is None.  A var that is no symbol is outside the model.
EvalDefine(x, env, d, st) ==
    IF Len(x.l) # 3 THEN Raise(st, "ValueError")
    ELSE LET s1 == Eval(x.l[3], env, d + 1, st)
         IN  IF s1.exc # "" THEN s1
             ELSE IF x.l[2].t # "sym" THEN Raise(s1, "Unmodelled")
             ELSE Ret(Note([s1 EXCEPT !.heap = EnvSetItem(@, env, x.l[2].n, s1.val)],
                           [k |-> "define", d |-> d, env |-> env, var |-> x.l[2].n,
                            val |-> s1.val]),
                      None)

\* (lambda (var...) body)
EvalLambda(x, env, d, st) ==
    IF Len(x.l) # 3 THEN Raise(st, "ValueError")
    ELSE LET id == Len(st.procs) + 1
         IN  Ret(Note([st EXCEPT !.procs = Append(@, ProcedureInit(x.l[2], x.l[3], env))],
                      [k |-> "lambda", d |-> d, env |-> env, proc |-> id]),
                 Proc(id))

\* (proc arg...)
EvalApply(x, env, d, st) ==
    LET s1 == Eval(x.l[1], env, d + 1, st)
    IN  IF s1.exc # "" THEN s1
        ELSE LET s2 == EvalArgs(Tail(x.l), env, d + 1, s1, <<>>)
             IN  IF s2.exc # "" THEN s2
                 ELSE Invoke(s1.val, s2.val.l, d,
                             Note(s2, [k |-> "call", d |-> d, x |-> x, f |-> s1.val,
                                       args |-> s2.val.l]))

\* Sexp.eval(x, env).  d counts the eval calls on the stack; every call is
\* noted in the log on entry.
Eval(x, env, d, st0) ==
    LET st == Note(st0, [k |-> "eval", d |-> d, env |-> env, x |-> x])
    IN  IF d > MaxDepth THEN Raise(st, "RecursionError")
        ELSE IF x.t = "sym"
        THEN LET f == EnvFind(st.heap, env, x.n)
             IN  IF f = 0 THEN Raise(st, "AttributeError")
                 ELSE Ret(st, st.heap[f].vars[x.n])
        ELSE IF x.t # "list" THEN Ret(st, x)
        ELSE IF Len(x.l) = 0 THEN Raise(st, "IndexError")
        ELSE IF IsHead(x, "if") THEN EvalIf(x, env, d, st)
        ELSE IF IsDefineForm(x) THEN EvalDefine(x, env, d, st)
        ELSE IF IsHead(x, "lambda") THEN EvalLambda(x, env, d, st)
        ELSE EvalApply(x, env, d, st)

-----------------------------------------------------------------------------
(* The host: what an embedding program does with the interpreter.          *)

Init ==
    /\ tokens = <<>>
    /\ rin = <<>>
    /\ rres = NoRead
    /\ heap = <<standard_env>>
    /\ procs = <<>>
    /\ out = <<>>
    /\ held = {1}
    /\ hist = <<>>

evalVars == <<heap, procs, out, held, hist>>
readVars == <<tokens, rin, rres>>

ReadResult(r, op) == [exc |-> r.exc, msg |-> r.msg, val |-> r.val, rest |-> r.rest, op |-> op]

\* The host builds a token list and calls read_from_tokens on it.
ReadNew ==
    /\ rres.op = "none"
    /\ \E ts \in SeqsUpTo(TokenAlphabet, MaxTokens) :
          LET r == read_from_tokens(ts)
          IN  /\ rin' = ts
              /\ tokens' = r.rest
              /\ rres' = ReadResult(r, "read")
    /\ UNCHANGED evalVars

\* The host calls read_from_tokens again on what the last call left.
ReadMore ==
    /\ rres.op = "read"
    /\ tokens # <<>>
    /\ LET r == read_from_tokens(tokens)
       IN  /\ rin' = tokens
           /\ tokens' = r.rest
           /\ rres' = ReadResult(r, "read")
    /\ UNCHANGED evalVars

\* The host calls parse on a program text.
ParseText ==
    /\ rres.op = "none"
    /\ \E s \in SeqsUpTo(Chars, MaxLen) :
          LET r == parse(s)
          IN  /\ rin' = tokenize(s)
              /\ tokens' = <<>>
              /\ rres' = ReadResult(r, "parse")
    /\ UNCHANGED evalVars

\* The host calls eval(x, env) with one of the expressions of P and a frame
\* it holds.
EvalStep(P, bound) ==
    /\ Len(hist) < bound
    /\ \E x \in P, e \in held :
          LET r == Eval(x, e, 0, St(heap, procs, out))
          IN  /\ heap' = r.heap
              /\ procs' = r.procs
              /\ out' = r.out
              /\ hist' = Append(hist, [op |-> "eval", x |-> x, env |-> e, val |-> r.val,
                                       exc |-> r.exc, log |-> r.log, nheap |-> Len(heap)])
    /\ UNCHANGED <<held, readVars>>

\* The host builds a frame of its own on top of a frame it holds:
\* Env(parms, args, outer).
NewEnv ==
    /\ Len(hist) < MaxShortRun
    /\ \E b \in {<<<<"x">>, <<Num(7)>>>>, <<<<"x", "y">>, <<Num(5), Num(6)>>>>}, o \in held :
          /\ heap' = Append(heap, EnvInit(b[1], b[2], o))
          /\ held' = held \cup {Len(heap) + 1}
          /\ hist' = Append(hist, [op |-> "env", x |-> None, env |-> Len(heap) + 1,
                                   val |-> None, exc |-> "", log |-> <<>>,
                                   nheap |-> Len(heap)])
    /\ UNCHANGED <<procs, out, readVars>>

\* Expressions, as parse builds them.
App2(a, b) == Lst(<<a, b>>)
App3(a, b, c) == Lst(<<a, b, c>>)
Define(s, e) == Lst(<<Sym("define"), Sym(s), e>>)
Lambda(ps, body) == Lst(<<Sym("lambda"), Lst(ps), body>>)

\* (lambda (z) (define y z)) applied to 3: a define inside a procedure body
DefineInBody == App2(Lambda(<<Sym("z")>>, Define("y", Sym("z"))), Num(3))

\* ((lambda (a) ((lambda (b) (+ a x)) a)) 2): two nested calls
NestedCall ==
    App2(Lambda(<<Sym("a")>>,
                App2(Lambda(<<Sym("b")>>, App3(Sym("+"), Sym("a"), Sym("x"))), Sym("a"))),
         Num(2))

ProgramsScope ==
    {Sym("x"), Sym("y"), Define("x", Num(1)), Define("y", Sym("x")), DefineInBody, NestedCall}

EvalScope == EvalStep(ProgramsScope, MaxShortRun)

SpecRead == Init /\ [][ReadNew \/ ReadMore \/ ParseText]_vars

SpecScope == Init /\ [][NewEnv \/ EvalScope]_vars

\* Closures: a free variable y, a caller that binds y itself, a closure over
\* the frame of a call, and a redefinition between the lambda and the call.
DefY1 == Define("y", Num(1))
DefY2 == Define("y", Num(2))
DefF == Define("f", Lambda(<<>>, Sym("y")))
CallF == Lst(<<Sym("f")>>)
CallerShadow == App2(Lambda(<<Sym("y")>>, CallF), Num(5))
DefG ==
    Define("g", App3(Lambda(<<Sym("y"), Sym("z")>>,
                            Lambda(<<>>, App3(Sym("-"), Sym("y"), Sym("z")))),
                     Num(7), Num(3)))
CallG == Lst(<<Sym("g")>>)
\* ((lambda (y) ((lambda (h ign) (h)) (lambda () y) (define y 8))) 1)
RedefineInFrame ==
    App2(Lambda(<<Sym("y")>>,
                App3(Lambda(<<Sym("h"), Sym("ign")>>, Lst(<<Sym("h")>>)),
                     Lambda(<<>>, Sym("y")),
                     Define("y", Num(8)))),
         Num(1))

ProgramsClosure == {DefY1, DefY2, DefF, CallF, CallerShadow, DefG, CallG, RedefineInFrame}

EvalClosure == EvalStep(ProgramsClosure, MaxLongRun)

SpecClosure == Init /\ [][EvalClosure]_vars

\* Applications, and/or, the print form and the print primitive.
OrUnbound == App3(Sym("or"), Num(1), Sym("u"))
AndConst == App3(Sym("and"), Num(1), Num(0))
PrintR == Lst(<<Sym("print"), Sym("r"), Num(10)>>)
PrintRInc == Lst(<<Sym("print"), Sym("r"), App3(Sym("+"), Sym("r"), Num(1))>>)
\* ((lambda (a b) b) (define p 4) p)
SideEffectArgs ==
    App3(Lambda(<<Sym("a"), Sym("b")>>, Sym("b")), Define("p", Num(4)), Sym("p"))
\* (if (> r 10) (or 1 u) (not r))
IfForm ==
    Lst(<<Sym("if"), App3(Sym(">"), Sym("r"), Num(10)), OrUnbound, App2(Sym("not"), Sym("r"))>>)
\* ((if 1 print 0) r 10): the print primitive, reached through a head that
\* is no symbol
PrintPrim == App3(Lst(<<Sym("if"), Num(1), Sym("print"), Num(0)>>), Sym("r"), Num(10))

ProgramsOrder ==
    {OrUnbound, AndConst, PrintR, PrintRInc, SideEffectArgs, IfForm, PrintPrim, Sym("r")}

EvalOrder == EvalStep(ProgramsOrder, MaxLongRun)

SpecOrder == Init /\ [][EvalOrder]_vars

\* The procedures of the repository's test: twice and repeat.
DefTwice == Define("twice", Lambda(<<Sym("x")>>, App3(Sym("*"), Num(2), Sym("x"))))
DefRepeat ==
    Define("repeat",
           Lambda(<<Sym("f")>>,
                  Lambda(<<Sym("x")>>, App2(Sym("f"), App2(Sym("f"), Sym("x"))))))

\* (repeat (repeat ... twice)) with k applications of repeat
RECURSIVE RepeatExpr(_)
RepeatExpr(k) == IF k = 0 THEN Sym("twice") ELSE App2(Sym("repeat"), RepeatExpr(k - 1))

Query(k, x) == App2(RepeatExpr(k), Num(x))

XValues == {-3, 5, 10}

ProgramsRepeat == {DefTwice, DefRepeat} \cup {Query(k, x) : k \in 0..MaxK, x \in XValues}

EvalRepeat == EvalStep(ProgramsRepeat, MaxShortRun)

SpecRepeat == Init /\ [][EvalRepeat]_vars

-----------------------------------------------------------------------------
(* The reader's errors.                                                    *)

\* Open parentheses minus closing ones among the first n tokens.
RECURSIVE Depth(_, _)
Depth(ts, n) ==
    IF n = 0 THEN 0
    ELSE Depth(ts, n - 1)
         + (IF ts[n] = LPAREN THEN 1 ELSE IF ts[n] = RPAREN THEN -1 ELSE 0)

\* ts ends inside a list that is never closed.
Unclosed(ts) ==
    /\ Len(ts) > 0
    /\ ts[1] = LPAREN
    /\ \A n \in 1..Len(ts) : Depth(ts, n) >= 1

\* ts is one complete parenthesized expression followed by one extra ')'.
ClosedThenStray(ts) ==
    /\ Len(ts) >= 3
    /\ ts[1] = LPAREN
    /\ ts[Len(ts)] = RPAREN
    /\ Depth(ts, Len(ts) - 1) = 0
    /\ \A n \in 1..(Len(ts) - 2) : Depth(ts, n) >= 1

\* C1: a read (or parse) of no tokens at all, or of tokens that end inside an
\* unclosed list, raises SyntaxError for the unexpected end of the input.
C1_EndOfInputIsSyntaxError ==
    (rres.op # "none" /\ (rin = <<>> \/ Unclosed(rin)))
        => (rres.exc = "SyntaxError" /\ rres.msg = "unexpected EOF while reading")

\* C2: a read of one complete parenthesized expression followed by an extra
\* ')' raises SyntaxError for the unexpected ')' and returns no expression.
C2_StrayParenIsSyntaxError ==
    (rres.op # "none" /\ ClosedThenStray(rin))
        => (rres.exc = "SyntaxError" /\ rres.msg = "unexpected )")

-----------------------------------------------------------------------------
(* Scope chains.                                                           *)

\* The last finished host call.
Last == hist[Len(hist)]

\* The frames from e outward, e first.
RECURSIVE ChainOf(_, _)
ChainOf(h, e) == IF e = 0 THEN <<>> ELSE <<e>> \o ChainOf(h, h[e].outer)

\* The positions in the chain of e of the frames that bind s.
BindersOf(h, e, s) ==
    LET c == ChainOf(h, e) IN {i \in 1..Len(c) : s \in DOMAIN h[c[i]].vars}

Min(S) == CHOOSE m \in S : \A n \in S : m <= n

\* The value of s in the innermost frame of the chain of e that binds s.
InnermostValue(h, e, s) ==
    LET c == ChainOf(h, e) IN h[c[Min(BindersOf(h, e, s))]].vars[s]

\* C3: evaluating a symbol in a frame yields the value bound in the
\* innermost frame of the chain that binds it, and raises the unbound-symbol
\* error (AttributeError) exactly when no frame of the chain binds it; the
\* same holds for the free variable x of a body two calls deep.
C3_ResolveInnermost ==
    (hist # <<>> /\ Last.op = "eval") =>
        /\ Last.x.t = "sym" =>
              IF BindersOf(heap, Last.env, Last.x.n) = {}
              THEN Last.exc = "AttributeError"
              ELSE Last.exc = "" /\ Last.val = InnermostValue(heap, Last.env, Last.x.n)
        /\ Last.x = NestedCall =>
              IF BindersOf(heap, Last.env, "x") = {}
              THEN Last.exc = "AttributeError"
              ELSE Last.exc = ""
                   /\ Last.val = Num(2 + IntOf(InnermostValue(heap, Last.env, "x")))

\* A symbol bound in two frames of the chain, to different values, was
\* looked up from the inner one.
C3_Witness ==
    /\ hist # <<>>
    /\ Last.op = "eval"
    /\ Last.x.t = "sym"
    /\ Last.exc = ""
    /\ LET c == ChainOf(heap, Last.env)
           B == BindersOf(heap, Last.env, Last.x.n)
       IN  \E i \in B, j \in B : i < j /\ heap[c[i]].vars[Last.x.n] # heap[c[j]].vars[Last.x.n]

\* (define s e) with e a literal or a symbol
IsPlainDefine(x) ==
    /\ x.t = "list"
    /\ Len(x.l) = 3
    /\ x.l[1] = Sym("define")
    /\ x.l[2].t = "sym"
    /\ x.l[3].t \in {"num", "sym"}

C4_Step ==
    (hist' # hist /\ Last'.op = "eval" /\ Last'.exc = "") =>
        LET x == Last'.x
            F == Last'.env
        IN  /\ IsPlainDefine(x) =>
                  LET s == x.l[2].n
                      v == IF x.l[3].t = "num" THEN x.l[3]
                           ELSE InnermostValue(heap, F, x.l[3].n)
                  IN  /\ Len(heap') = Len(heap)
                      /\ \A f \in 1..Len(heap) : f # F => heap'[f] = heap[f]
                      /\ heap'[F].outer = heap[F].outer
                      /\ DOMAIN heap'[F].vars = (DOMAIN heap[F].vars) \cup {s}
                      /\ \A k \in (DOMAIN heap[F].vars) \ {s} :
                            heap'[F].vars[k] = heap[F].vars[k]
                      /\ heap'[F].vars[s] = v
            /\ x = DefineInBody =>
                  /\ Len(heap') = Len(heap) + 1
                  /\ \A f \in 1..Len(heap) : heap'[f] = heap[f]
                  /\ heap'[Len(heap')].vars = [k \in {"y", "z"} |-> Num(3)]

\* C4: (define s e) evaluated in frame F inserts or overwrites the binding
\* of s in F and changes no other binding of F and no other frame, whatever
\* the frames of F's chain bind s to; a define in a procedure body changes
\* only the frame of that call, never the root or a frame of its chain.
C4_DefineOnlyInOwnFrame == [][C4_Step]_vars

\* A define in a frame whose chain binds the same symbol further out, to
\* another value.
C4_Witness ==
    /\ hist # <<>>
    /\ Last.op = "eval"
    /\ Last.exc = ""
    /\ \/ /\ IsPlainDefine(Last.x)
          /\ \E f \in 1..Len(heap) :
                /\ f # Last.env
                /\ \E i \in 1..Len(ChainOf(heap, Last.env)) : ChainOf(heap, Last.env)[i] = f
                /\ Last.x.l[2].n \in DOMAIN heap[f].vars
                /\ heap[f].vars[Last.x.l[2].n] # heap[Last.env].vars[Last.x.l[2].n]
       \/ /\ Last.x = DefineInBody
          /\ "y" \in DOMAIN heap[Last.env].vars
          /\ heap[Last.env].vars["y"] # Num(3)

-----------------------------------------------------------------------------
(* Closures.                                                               *)

\* Everything noted during the first n host calls, in order.
RECURSIVE LogUpTo(_)
LogUpTo(n) == IF n = 0 THEN <<>> ELSE LogUpTo(n - 1) \o hist[n].log

FullLog == LogUpTo(Len(hist))

\* The number of frames when host call n had finished.
HeapAfter(n) == IF n = Len(hist) THEN Len(heap) ELSE hist[n + 1].nheap

\* C5: every invocation of a Procedure makes exactly one new frame; the
\* frame binds the parameters to the arguments by position and its parent
\* is the frame in which the lambda was evaluated, not the caller's: f's
\* free variable y is read from the root although the caller's frame binds
\* y to 5, and g reads y and z from the frame of the call that made it.
C5_LexicalFrame ==
    LET L == FullLog
    IN  /\ \A i \in 1..Len(L) :
              L[i].k = "frame" =>
                  /\ \E j \in 1..i :
                        /\ L[j].k = "lambda"
                        /\ L[j].proc = L[i].proc
                        /\ heap[L[i].frame].outer = L[j].env
                  /\ (\A j \in 1..Len(L) : L[j].k = "define" => L[j].env # L[i].frame) =>
                        LET names == ParmNames(procs[L[i].proc].parms)
                            n == IF Len(names) < Len(L[i].args) THEN Len(names)
                                 ELSE Len(L[i].args)
                        IN  /\ DOMAIN heap[L[i].frame].vars = {names[m] : m \in 1..n}
                            /\ \A m \in 1..n :
                                  (\A m2 \in (m + 1)..n : names[m2] # names[m]) =>
                                      heap[L[i].frame].vars[names[m]] = L[i].args[m]
        /\ \A n \in 1..Len(hist) :
              HeapAfter(n) - hist[n].nheap =
                  Cardinality({i \in 1..Len(hist[n].log) :
                                  /\ hist[n].log[i].k = "call"
                                  /\ hist[n].log[i].f.t = "proc"})
        /\ (hist # <<>> /\ Last.x = CallerShadow /\ "f" \in DOMAIN heap[1].vars) =>
              IF "y" \in DOMAIN heap[1].vars
              THEN Last.exc = "" /\ Last.val = heap[1].vars["y"]
              ELSE Last.exc = "AttributeError"
        /\ (hist # <<>> /\ Last.x = CallG /\ "g" \in DOMAIN heap[1].vars) =>
              Last.exc = "" /\ Last.val = Num(4)

\* The caller's frame binds y to 5 and the body of f read another y.
C5_Witness ==
    /\ hist # <<>>
    /\ Last.x = CallerShadow
    /\ Last.exc = ""
    /\ Last.val \in {Num(1), Num(2)}
    /\ Cardinality({i \in 1..Len(Last.log) : Last.log[i].k = "frame"}) = 2

IsDefY(x) == x = DefY1 \/ x = DefY2

\* C7: a closure reads the current value of its free variable: after
\* f = (lambda () y) was made, a later (define y v) in the frame f captured
\* is what the next call of f returns, from the root or from inside another
\* call; and a closure made in a call frame sees a define that the same
\* frame executes after the lambda and before the closure is invoked.
C7_LiveBinding ==
    /\ \A i \in 1..Len(hist), j \in 1..Len(hist), k \in 1..Len(hist) :
          ( /\ i < j /\ j < k
            /\ hist[i].x = DefF
            /\ IsDefY(hist[j].x)
            /\ hist[k].x \in {CallF, CallerShadow}
            /\ \A m \in (j + 1)..(k - 1) : ~IsDefY(hist[m].x) )
          => (hist[k].exc = "" /\ hist[k].val = hist[j].x.l[3])
    /\ \A k \in 1..Len(hist) :
          hist[k].x = RedefineInFrame => (hist[k].exc = "" /\ hist[k].val = Num(8))

\* y was 1 when f was made, was redefined to 2, and f then returned 2.
C7_Witness ==
    /\ Len(hist) = 4
    /\ hist[1].x = DefY1
    /\ hist[2].x = DefF
    /\ hist[3].x = DefY2
    /\ hist[4].x = CallF
    /\ hist[4].val = Num(2)

\* Following outer links from f reaches the root within n steps.
RECURSIVE Climbs(_, _, _)
Climbs(h, f, n) ==
    IF f = 1 THEN TRUE
    ELSE IF f = 0 \/ n = 0 THEN FALSE
    ELSE Climbs(h, h[f].outer, n - 1)

\* C10: the parent of every frame is a frame created strictly before it,
\* only the root has no parent, and the parent links lead from every frame
\* to the root.
C10_ParentLinksAcyclic ==
    \A f \in 1..Len(heap) :
        /\ heap[f].outer \in 0..(f - 1)
        /\ (heap[f].outer = 0) <=> (f = 1)
        /\ Climbs(heap, f, Len(heap))

\* A frame made by calling a closure whose captured frame is itself the
\* frame of a call.
C10_Witness ==
    /\ Len(heap) >= 4
    /\ \E f \in 1..Len(heap) : heap[f].outer >= 2 /\ heap[heap[f].outer].outer = 1
    /\ \E i \in 1..Len(FullLog) : FullLog[i].k = "define" /\ FullLog[i].env >= 2

-----------------------------------------------------------------------------
(* The order of evaluation and the print form.                             *)

\* A list whose head is none of if, define, print, lambda.
IsApplication(x) ==
    /\ x.t = "list"
    /\ Len(x.l) > 0
    /\ ~(x.l[1].t = "sym" /\ x.l[1].n \in {"if", "define", "print", "lambda"})

\* For the application whose evaluation starts at L[i]: the place of the
\* first later entry that is not nested in it, or Len(L) + 1.
EndOf(L, i) ==
    LET after == {j \in (i + 1)..Len(L) : L[j].d <= L[i].d}
    IN  IF after = {} THEN Len(L) + 1 ELSE Min(after)

\* The eval calls made directly by the application at L[i], in order.
KidsOf(L, i) ==
    SelectSeq([m \in 1..(EndOf(L, i) - 1 - i) |-> i + m],
              LAMBDA j : L[j].k = "eval" /\ L[j].d = L[i].d + 1)

OrderedIn(L, ok) ==
    /\ \A i \in 1..Len(L) :
          (L[i].k = "eval" /\ IsApplication(L[i].x)) =>
              LET x == L[i].x
                  kids == KidsOf(L, i)
                  end == EndOf(L, i)
              IN  /\ Len(kids) <= Len(x.l)
                  /\ \A m \in 1..Len(kids) :
                        L[kids[m]].x = x.l[m] /\ L[kids[m]].env = L[i].env
                  /\ ok => end <= Len(L)
                  /\ end <= Len(L) =>
                        /\ L[end].k = "call"
                        /\ L[end].d = L[i].d
                        /\ L[end].x = x
                        /\ Len(kids) = Len(x.l)
                        /\ Len(L[end].args) = Len(x.l) - 1
    /\ \A i \in 1..Len(L) :
          L[i].k = "frame" => (i > 1 /\ L[i - 1].k = "call" /\ L[i - 1].f = Proc(L[i].proc))

\* C8: in every application the head is evaluated first, then each
\* remaining element once, left to right, in the same environment, and the
\* callable is invoked only after that; and/or are applications like any
\* other, so (or 1 u) with u unbound raises the unbound-symbol error, and an
\* operand sees the define made by the operand to its left.
C8_ApplicativeOrder ==
    \A n \in 1..Len(hist) :
        /\ OrderedIn(hist[n].log, hist[n].exc = "")
        /\ hist[n].x = OrUnbound => hist[n].exc = "AttributeError"
        /\ hist[n].x = AndConst => (hist[n].exc = "" /\ hist[n].val = Num(0))
        /\ hist[n].x = SideEffectArgs => (hist[n].exc = "" /\ hist[n].val = Num(4))

\* (or 1 u) failed on u and an operand read what the operand before it defined.
C8_Witness ==
    /\ hist # <<>>
    /\ Last.x = OrUnbound
    /\ Last.exc = "AttributeError"
    /\ Len(KidsOf(Last.log, 1)) = 3
    /\ \E n \in 1..Len(hist) : hist[n].x = SideEffectArgs /\ hist[n].val = Num(4)

\* (print s e)
IsPrintForm(x) == x.t = "list" /\ Len(x.l) = 3 /\ x.l[1] = Sym("print")

\* (define s e) for (print s e)
AsDefine(x) == Lst(<<Sym("define"), x.l[2], x.l[3]>>)

C9_Step ==
    (hist' # hist /\ Last'.op = "eval") =>
        /\ IsPrintForm(Last'.x) =>
              LET r == Eval(AsDefine(Last'.x), Last'.env, 0, St(heap, procs, out))
              IN  /\ heap' = r.heap
                  /\ procs' = r.procs
                  /\ out' = r.out
                  /\ Last'.val = r.val
                  /\ Last'.exc = r.exc
                  /\ out' = out
                  /\ Last'.val = None
        /\ Last'.x = PrintR =>
              (Last'.exc = "" /\ heap'[Last'.env].vars["r"] = Num(10))
        /\ (hist # <<>> /\ Last.x = PrintR /\ Last'.x = Sym("r")) =>
              (Last'.exc = "" /\ Last'.val = Num(10))

\* C9: (print s e) does what (define s e) does from the same state: the
\* same frames, procedures and output afterwards, the same result (None) or
\* the same exception, and nothing is written; after (print r 10) the
\* symbol r evaluates to 10.
C9_PrintIsDefine == [][C9_Step]_vars

\* r was bound by (print r 10), rebound by (print r (+ r 1)) and then read.
C9_Witness ==
    /\ Len(hist) >= 3
    /\ hist[Len(hist) - 2].x = PrintR
    /\ hist[Len(hist) - 1].x = PrintRInc
    /\ Last.x = Sym("r")
    /\ Last.val = Num(11)
    /\ out = <<>>

-----------------------------------------------------------------------------
(* twice and repeat.                                                       *)

RECURSIVE Pow2(_)
Pow2(n) == IF n = 0 THEN 1 ELSE 2 * Pow2(n - 1)

DefinedBefore(x, n) == \E m \in 1..(n - 1) : hist[m].x = x /\ hist[m].exc = ""

\* C6: once twice and repeat are defined in the root, repeat applied k
\* times to twice and called on x returns x * 2^(2^k), for every k and x of
\* the model; k = 0 needs twice only.
C6_RepeatTwice ==
    \A n \in 1..Len(hist) : \A k \in 0..MaxK : \A x \in XValues :
        ( /\ hist[n].x = Query(k, x)
          /\ DefinedBefore(DefTwice, n)
          /\ (k = 0 \/ DefinedBefore(DefRepeat, n)) )
        => (hist[n].exc = "" /\ hist[n].val = Num(x * Pow2(Pow2(k))))

\* ((repeat (repeat twice)) 10) returned 160.
C6_Witness ==
    /\ hist # <<>>
    /\ Last.x = Query(2, 10)
    /\ Last.exc = ""
    /\ Last.val = Num(160)

====
